---- MODULE Spec2Model ----
(***************************************************************************)
(* A model of @ndk/fs (src/src/@ndk/fs/ndk.fs.js): the directory walker    *)
(* __walk, the copy and symlink mirrors built on it, their prune pass, and *)
(* remove.  The file system is a finite map from paths to entries; every   *)
(* `await` of the code that matters for ordering is a separate step.       *)
(* With it, a model of EventEmitter (src/src/@ndk/fn/events.js): its       *)
(* listeners map and the emits suspended on a listener.                    *)
(*                                                                         *)
(* What the model takes from the platform:                                 *)
(*  - readdir lists the entries of a directory in name order;              *)
(*  - rmdir(path, { recursive: true }) deletes a file, a link or a whole   *)
(*    directory tree and succeeds on a path that does not exist;           *)
(*  - stat, existsSync and copyFile follow symbolic links, lstat, readdir  *)
(*    and rmdir do not;                                                    *)
(*  - symbolic links lead to files or nowhere, never to directories;       *)
(*  - nothing but the call in progress changes the file system.            *)
(***************************************************************************)
EXTENDS Integers, Sequences, FiniteSets, TLC

VARIABLES
  fs,             \* the file system: path -> entry
  op,             \* the call in progress (or the last one): name, src, dest, flags
  pc,             \* position of that call: idle, walk, mirror, mirrored, prune
  wstack,         \* the chain of suspended __walk activations, innermost last
  trace,          \* the walker invocations of the current __walk, in call order
  pending,        \* indexes of trace whose promise has not settled yet
  existentPaths,  \* the array of __copy/__symlink (on = FALSE models `false`)
  result,         \* how the current call settled: pending, ok or an error code
  muts,           \* the mutating file system calls of the current call, in order
  ncalls,         \* calls started so far
  hist,           \* one record per finished call
  fs0,            \* the file system when the current call was made
  emitter,        \* an EventEmitter: its listeners map, the Sets, the running emits
  registered      \* event -> the listeners registered and not yet removed

\* the state of @ndk/fs and the state of an EventEmitter of @ndk/fn/events
fsvars == <<fs, op, pc, wstack, trace, pending, existentPaths, result, muts, ncalls, hist, fs0>>
evars == <<emitter, registered>>
vars == <<fs, op, pc, wstack, trace, pending, existentPaths, result, muts, ncalls, hist, fs0,
          emitter, registered>>

----------------------------------------------------------------------------
(* Bounds of the model *)

MaxDepth == 2
MaxEntries == 4
MaxMirrorEntries == 2
MaxLinkDestEntries == 1

----------------------------------------------------------------------------
(* Flag constants *)

COPY_EXCL == 1
COPY_RMNONEXISTENT == 2
SYMLINK_EXCL == 4
SYMLINK_RMNONEXISTENT == 8
WALK_FILEFIRST == 16

\* flags & bit, for a one-bit mask
HasFlag(flags, bit) == (flags \div bit) % 2 = 1

----------------------------------------------------------------------------
(* Paths: sequences of segments.  join concatenates and drops '.', which   *)
(* is the empty sequence; resolve makes a path absolute by prefixing the   *)
(* working directory, written "/".                                         *)

Names == <<"a", "b">>
NameSet == {Names[i] : i \in 1..Len(Names)}

SRC == <<"s">>
DEST == <<"d">>
OUTSIDE == <<"x">>

RelPaths == UNION {[1..k -> NameSet] : k \in 1..MaxDepth}
RelPaths0 == RelPaths \cup {<<>>}
Paths == {<<>>, OUTSIDE} \cup {SRC \o p : p \in RelPaths0} \cup {DEST \o p : p \in RelPaths0}

join(a, b) == a \o b
dirname(p) == IF p = <<>> THEN <<>> ELSE SubSeq(p, 1, Len(p) - 1)
IsAbsolute(p) == p # <<>> /\ Head(p) = "/"
resolve(p) == IF IsAbsolute(p) THEN p ELSE <<"/">> \o p
FromCwd(p) == IF IsAbsolute(p) THEN Tail(p) ELSE p
IsPrefix(p, q) == Len(p) <= Len(q) /\ SubSeq(q, 1, Len(p)) = p
IsStrictPrefix(p, q) == IsPrefix(p, q) /\ p # q

----------------------------------------------------------------------------
(* File system entries and the primitives of require('fs') the code uses.  *)
(* Each primitive returns [fs, err, mut]: the new file system, "" or the   *)
(* error code it fails with, and the paths it changed.                     *)

NoEntry == [kind |-> "none", data |-> <<>>]
DirEntry == [kind |-> "dir", data |-> <<>>]
FileEntry(content) == [kind |-> "file", data |-> content]
LinkEntry(target) == [kind |-> "link", data |-> target]

\* one mutating call: the primitive, its path and the entries it deleted
Mut(fn, p, gone) == [fn |-> fn, path |-> p, gone |-> gone]

Ok(f, mut) == [fs |-> f, err |-> "", mut |-> mut]
Fail(f, code) == [fs |-> f, err |-> code, mut |-> <<>>]

\* lstat: the entry itself
Lstat(f, p) == LET q == FromCwd(p) IN IF q \in DOMAIN f THEN f[q] ELSE NoEntry

\* where a path leads once a symbolic link at it is followed
RECURSIVE FollowPath(_, _, _)
FollowPath(f, p, fuel) ==
  LET e == Lstat(f, p) IN
  IF e.kind = "link" /\ fuel > 0 THEN FollowPath(f, e.data, fuel - 1) ELSE FromCwd(p)

\* stat: the entry a path leads to (a link that leads nowhere has none)
Stat(f, p) ==
  LET e == Lstat(f, FollowPath(f, p, 2)) IN IF e.kind = "link" THEN NoEntry ELSE e

existsSync(f, p) == Stat(f, p).kind # "none"

readlink(f, p) == Lstat(f, p).data

Put(f, p, e) == [f EXCEPT ![p] = e]

\* mkdir(path, { recursive: true })
RECURSIVE MkdirP(_, _)
MkdirP(f, p) ==
  IF p = <<>> THEN Ok(f, <<>>)
  ELSE LET e == Stat(f, p) IN
       IF e.kind = "dir" THEN Ok(f, <<>>)
       ELSE IF Lstat(f, p).kind # "none" THEN Fail(f, "EEXIST")
       ELSE LET up == MkdirP(f, dirname(p)) IN
            IF up.err # "" THEN Fail(f, IF up.err = "EEXIST" THEN "ENOTDIR" ELSE up.err)
            ELSE Ok(Put(up.fs, p, DirEntry), Append(up.mut, Mut("mkdir", p, {})))

\* mkdir(path, { recursive })
mkdir(f, p, recursive) ==
  IF recursive THEN MkdirP(f, p)
  ELSE IF Lstat(f, p).kind # "none" THEN Fail(f, "EEXIST")
  ELSE IF Stat(f, dirname(p)).kind # "dir" THEN Fail(f, "ENOENT")
  ELSE Ok(Put(f, p, DirEntry), <<Mut("mkdir", p, {})>>)

\* copyFile(src, dest, excl ? COPYFILE_EXCL : 0): the destination is opened
\* for writing, so a symbolic link at dest is written through
copyFile(f, src, dest, excl) ==
  LET s == Stat(f, src)
      d == Lstat(f, dest)
      t == FollowPath(f, dest, 2)
      te == Lstat(f, t)
  IN
  IF s.kind = "none" THEN Fail(f, "ENOENT")
  ELSE IF s.kind = "dir" THEN Fail(f, "EISDIR")
  ELSE IF d.kind # "none" /\ excl THEN Fail(f, "EEXIST")
  ELSE IF te.kind = "dir" THEN Fail(f, "EISDIR")
  ELSE IF te.kind = "link" THEN Fail(f, "ELOOP")
  ELSE IF t \notin DOMAIN f \/ Stat(f, dirname(t)).kind # "dir" THEN Fail(f, "ENOENT")
  ELSE Ok(Put(f, t, FileEntry(s.data)), <<Mut("copyFile", t, {})>>)

\* symlink(target, path)
symlinkFile(f, target, dest) ==
  IF Lstat(f, dest).kind # "none" THEN Fail(f, "EEXIST")
  ELSE IF Stat(f, dirname(dest)).kind # "dir" THEN Fail(f, "ENOENT")
  ELSE Ok(Put(f, dest, LinkEntry(target)), <<Mut("symlink", dest, {})>>)

\* rmdir(path, { recursive: true }): the path and all below it, absent is fine
rmdir(f, p) ==
  IF Lstat(f, p).kind = "none" THEN Ok(f, <<>>)
  ELSE Ok([q \in DOMAIN f |-> IF IsPrefix(p, q) THEN NoEntry ELSE f[q]],
          <<Mut("rmdir", p, {q \in DOMAIN f : IsPrefix(p, q) /\ f[q].kind # "none"})>>)

\* readdir(path, { withFileTypes: true }): the Dirents, in name order
RECURSIVE Dirents(_, _, _)
Dirents(f, p, i) ==
  IF i > Len(Names) THEN <<>>
  ELSE LET e == Lstat(f, join(p, <<Names[i]>>)) IN
       IF e.kind = "none" THEN Dirents(f, p, i + 1)
       ELSE <<[name |-> Names[i], kind |-> e.kind]>> \o Dirents(f, p, i + 1)

\* a listing that is empty for a path that does not exist
readdirOfMissingIsEmpty(f, p) ==
  IF Stat(f, p).kind # "dir" THEN [err |-> "", files |-> <<>>]
  ELSE [err |-> "", files |-> Dirents(f, p, 1)]

readdir(f, p) ==
  LET e == Stat(f, p) IN
  IF e.kind = "none" THEN [err |-> "ENOENT", files |-> <<>>]
  ELSE IF e.kind # "dir" THEN [err |-> "ENOTDIR", files |-> <<>>]
  ELSE [err |-> "", files |-> Dirents(f, p, 1)]

----------------------------------------------------------------------------
(* Directory trees the model starts from.  A tree maps every relative path *)
(* to its entry; a path with an entry below it is a directory.             *)

Shapes(max) ==
  {S \in SUBSET RelPaths :
     /\ Cardinality(S) <= max
     /\ \A p \in S : Len(p) > 1 => dirname(p) \in S}

HasChild(S, p) == \E q \in S : Len(q) = Len(p) + 1 /\ dirname(q) = p
Leaves(S) == {p \in S : ~HasChild(S, p)}

TreesOf(S, leafKinds) ==
  {[p \in RelPaths |->
      IF p \notin S THEN "none" ELSE IF HasChild(S, p) THEN "dir" ELSE k[p]] :
     k \in [Leaves(S) -> leafKinds]}

Trees(max, leafKinds) == UNION {TreesOf(S, leafKinds) : S \in Shapes(max)}
EmptyTree == [p \in RelPaths |-> "none"]

\* the entry a tree of kinds puts at root \o p
Populate(root, kind, p) ==
  CASE kind = "dir" -> DirEntry
    [] kind = "file" -> FileEntry(join(root, p))
    [] kind = "link" -> LinkEntry(resolve(join(SRC, p)))
    [] kind = "xlink" -> LinkEntry(resolve(OUTSIDE))
    [] OTHER -> NoEntry

\* a file system holding the tree st under SRC and dt under DEST
MkFs(srcRoot, st, destRoot, dt, outside) ==
  [p \in Paths |->
     IF p = <<>> THEN DirEntry
     ELSE IF p = OUTSIDE THEN (IF outside THEN FileEntry(OUTSIDE) ELSE NoEntry)
     ELSE IF p = SRC THEN Populate(SRC, srcRoot, <<>>)
     ELSE IF p = DEST THEN Populate(DEST, destRoot, <<>>)
     ELSE IF Head(p) = Head(SRC) THEN Populate(SRC, st[Tail(p)], Tail(p))
     ELSE Populate(DEST, dt[Tail(p)], Tail(p))]

\* the entries strictly below root, as relative paths
Below(f, root) == {p \in RelPaths : Lstat(f, join(root, p)).kind # "none"}

----------------------------------------------------------------------------
(* __walk (lines 72-94).  A frame is one activation: the directory it      *)
(* lists, the Dirents still to process (the head is the current one) and   *)
(* where it is suspended: readdir, loop, await (on the walker), nested (on *)
(* the recursive __walk), post (about to call the walker after it).        *)

Frame(path) == [path |-> path, files |-> <<>>, st |-> "readdir"]

Top == wstack[Len(wstack)]
SetTop(fr) == [wstack EXCEPT ![Len(wstack)] = fr]
Pop == SubSeq(wstack, 1, Len(wstack) - 1)
Advance(fr) == [fr EXCEPT !.files = Tail(@), !.st = "loop"]

\* the options object of the __walk in progress
WalkRoot == IF pc = "walk" THEN op.src ELSE IF pc = "mirror" THEN op.src ELSE op.dest
WalkFlags == IF pc = "walk" THEN op.flags ELSE 0
FileFirst == HasFlag(WalkFlags, WALK_FILEFIRST)

\* the operation rejects with err: every suspended activation is abandoned
Settled(o, res, tr, ms) ==
  /\ wstack' = <<>>
  /\ pc' = "idle"
  /\ result' = res
  /\ hist' = Append(hist, [op |-> o, result |-> res, trace |-> tr, muts |-> ms])

Reject(err, tr, ms) == Settled(op, err, tr, ms)

\* the operation resolves
Resolve(tr, ms) == Settled(op, "ok", tr, ms)

\* line 74: const files = await readdir(join(root, path), { withFileTypes: true })
Readdir ==
  /\ wstack # <<>> /\ Top.st = "readdir"
  /\ LET r == readdir(fs, join(WalkRoot, Top.path)) IN
     IF r.err # ""
     THEN /\ Reject(r.err, trace, muts)
          /\ UNCHANGED <<fs, op, trace, pending, existentPaths, muts, ncalls, fs0>>
     ELSE /\ wstack' = SetTop([Top EXCEPT !.files = r.files, !.st = "loop"])
          /\ UNCHANGED <<fs, op, pc, trace, pending, existentPaths, result, muts, ncalls, hist, fs0>>
  /\ UNCHANGED evars

\* a walker call that is not awaited: the loop goes on at once
AfterCallNoAwait(fr) == [fr EXCEPT !.files = Tail(@), !.st = "loop"]

\* the frame after `await walker(filePath, file)` was issued: suspended on it
AfterCall(fr) == [fr EXCEPT !.st = "await"]

\* lines 82, 84, 91: walker(filePath, file) is called
Invoke ==
  /\ wstack # <<>>
  /\ \/ Top.st = "post"
     \/ /\ Top.st = "loop" /\ Top.files # <<>>
        /\ ~(Head(Top.files).kind = "dir" /\ FileFirst)
  /\ LET file == Head(Top.files)
         filePath == join(Top.path, <<file.name>>)
     IN /\ trace' = Append(trace, [path |-> filePath, kind |-> file.kind,
                                   res |-> "pending", pass |-> pc])
        /\ pending' = pending \cup {Len(trace) + 1}
        /\ wstack' = SetTop(AfterCall(Top))
  /\ UNCHANGED <<fs, op, pc, existentPaths, result, muts, ncalls, hist, fs0>>
  /\ UNCHANGED evars

\* lines 80-81: with WALK_FILEFIRST a directory is descended into first
Descend ==
  /\ wstack # <<>> /\ Top.st = "loop" /\ Top.files # <<>>
  /\ Head(Top.files).kind = "dir" /\ FileFirst
  /\ wstack' = Append(SetTop([Top EXCEPT !.st = "nested"]),
                      Frame(join(Top.path, <<Head(Top.files).name>>)))
  /\ UNCHANGED <<fs, op, pc, trace, pending, existentPaths, result, muts, ncalls, hist, fs0>>
  /\ UNCHANGED evars

\* descent on a truthy result only
NeedNestedTruthy(r) == r = "true"

\* descent whatever the result
NeedNestedAlways(r) == TRUE

\* line 86: needNested !== false
NeedNested(r) == r # "false"

\* the activations once the awaited walker call settled with r (lines 82-92)
Resume(r) ==
  IF wstack = <<>> \/ Top.st # "await" THEN wstack
  ELSE LET file == Head(Top.files) IN
       IF file.kind = "dir" /\ ~FileFirst /\ NeedNested(r)
       THEN Append(SetTop([Top EXCEPT !.st = "nested"]), Frame(join(Top.path, <<file.name>>)))
       ELSE SetTop(Advance(Top))

\* the walker call after the nested __walk is forgotten
AfterNestedNoPost(fr) == Advance(fr)

\* the awaiting activation once the nested __walk returned: with WALK_FILEFIRST
\* the walker is called next (line 82), otherwise the loop goes on (line 88)
AfterNested(fr) == IF FileFirst THEN [fr EXCEPT !.st = "post"] ELSE Advance(fr)

\* the for loop is exhausted: __walk returns to the activation awaiting it,
\* or to its caller
Return ==
  /\ wstack # <<>> /\ Top.st = "loop" /\ Top.files = <<>>
  /\ IF Len(wstack) > 1
     THEN /\ wstack' = [Pop EXCEPT ![Len(Pop)] = AfterNested(@)]
          /\ UNCHANGED <<pc, result, hist>>
     ELSE IF pc = "mirror"
     THEN /\ wstack' = <<>>
          /\ pc' = "mirrored"
          /\ UNCHANGED <<result, hist>>
     ELSE Resolve(trace, muts)
  /\ UNCHANGED <<fs, op, trace, pending, existentPaths, muts, ncalls, fs0>>
  /\ UNCHANGED evars

----------------------------------------------------------------------------
(* EventEmitter of @ndk/fn/events (lines 18-110).  The listeners map takes  *)
(* an event to a Set object; a Set is known by its index in `sets` and      *)
(* holds its listeners in insertion order, each stamped with the call that  *)
(* added it, which is what a running `for ... of` over the Set goes by: it  *)
(* visits what was added behind its position, not what was deleted ahead.   *)

Events == {"e1", "e2"}

\* the functions a caller passes to on and delete
UserListeners == {[kind |-> "on", id |-> 1], [kind |-> "on", id |-> 2]}
\* the closure of the k-th call of once (line 98)
OnceListener(k) == [kind |-> "once", id |-> k]

\* calls of on, once, delete and emit in one behaviour
MaxEmitterCalls == 4

\* events.get(event) is undefined
NoSet == 0

\* constructor (lines 21-23)
NewEmitter ==
  [events |-> [e \in Events |-> NoSet], sets |-> <<>>, onces |-> <<>>, emits |-> <<>>,
   calls |-> 0]

\* Set.prototype.add, .delete
SetAdd(items, listener, stamp) ==
  IF \E i \in 1..Len(items) : items[i].fn = listener THEN items
  ELSE Append(items, [fn |-> listener, stamp |-> stamp])
SetDelete(items, listener) == SelectSeq(items, LAMBDA x : x.fn # listener)
SetOf(items) == {items[i].fn : i \in 1..Len(items)}

\* lines 44-46
has(em, event) == em.events[event] # NoSet

\* lines 56-58, 92-94: if (!events.has(event)) events.set(event, new Set())
EnsureSet(em, event) ==
  IF has(em, event) THEN em
  ELSE [em EXCEPT !.sets = Append(@, <<>>), !.events[event] = Len(em.sets) + 1]

\* lines 53-63
on(em, event, listener) ==
  LET e1 == EnsureSet(em, event)
      s == e1.events[event]
  IN [e1 EXCEPT !.sets[s] = SetAdd(@, listener, em.calls + 1), !.calls = @ + 1]

\* a delete that leaves the key of an emptied Set in the map
deleteKeepsKey(em, event, listener) ==
  LET s == em.events[event] IN
  IF s = NoSet THEN [em EXCEPT !.calls = @ + 1]
  ELSE [em EXCEPT !.sets[s] = SetDelete(@, listener), !.calls = @ + 1]

\* lines 70-83
delete(em, event, listener) ==
  LET s == em.events[event] IN
  IF s = NoSet THEN [em EXCEPT !.calls = @ + 1]
  ELSE LET items == SetDelete(em.sets[s], listener) IN
       [em EXCEPT !.sets[s] = items,
                  !.events[event] = IF items = <<>> THEN NoSet ELSE @,
                  !.calls = @ + 1]

\* lines 89-108: the listener keeps the Set it was added to (line 97)
once(em, event) ==
  LET e1 == EnsureSet(em, event)
      s == e1.events[event]
      k == Len(em.onces) + 1
  IN [e1 EXCEPT !.onces = Append(@, [event |-> event, listeners |-> s, calls |-> 0,
                                     resolved |-> FALSE]),
                !.sets[s] = SetAdd(@, OnceListener(k), em.calls + 1),
                !.calls = @ + 1]

\* a listener of once that stays in its Set when it is called
CallOnceStays(em, k) ==
  [em EXCEPT !.onces[k].calls = @ + 1, !.onces[k].resolved = TRUE]

\* lines 98-104: the listener of once is called
CallOnce(em, k) ==
  LET o == em.onces[k]
      items == SetDelete(em.sets[o.listeners], OnceListener(k))
  IN [em EXCEPT !.onces[k].calls = @ + 1,
                !.onces[k].resolved = TRUE,
                !.sets[o.listeners] = items,
                !.events[o.event] = IF items = <<>> THEN NoSet ELSE @]

\* listener(...args): what the call itself does to the emitter
Call(em, listener) == IF listener.kind = "once" THEN CallOnce(em, listener.id) ELSE em

\* lines 34-36: the for loop of emit i takes the next listener of its Set and
\* calls it, or ends
Iterate(em, i) ==
  LET m == em.emits[i]
      rest == IF m.listeners = NoSet THEN <<>>
              ELSE SelectSeq(em.sets[m.listeners], LAMBDA x : x.stamp > m.last)
  IN IF rest = <<>> THEN [em EXCEPT !.emits[i].st = "done"]
     ELSE Call([em EXCEPT !.emits[i].last = Head(rest).stamp,
                          !.emits[i].st = "await",
                          !.emits[i].cur = Head(rest).fn],
               Head(rest).fn)

\* lines 30-38, up to the first await
emit(em, event) ==
  LET started == [em EXCEPT !.emits = Append(@, [event |-> event, listeners |-> em.events[event],
                                                 last |-> 0, st |-> "start",
                                                 cur |-> OnceListener(0)]),
                            !.calls = @ + 1]
  IN Iterate(started, Len(em.emits) + 1)

----------------------------------------------------------------------------
(* walk (lines 53-58) with a visitor supplied by the caller *)

\* existentPaths of a call that keeps none (line 128: `false`)
NoPaths == [on |-> FALSE, list |-> <<>>]

\* no call was made yet
Idle ==
  /\ op = [name |-> "none", src |-> <<>>, dest |-> <<>>, flags |-> 0]
  /\ pc = "idle"
  /\ wstack = <<>>
  /\ trace = <<>>
  /\ pending = {}
  /\ existentPaths = NoPaths
  /\ result = "none"
  /\ muts = <<>>
  /\ ncalls = 0
  /\ hist = <<>>
  /\ fs0 = fs
  /\ emitter = NewEmitter
  /\ registered = [e \in Events |-> {}]

WalkFlagSet == {0, WALK_FILEFIRST, WALK_FILEFIRST + COPY_RMNONEXISTENT}

walk(root, flags) ==
  /\ pc = "idle"
  /\ op' = [name |-> "walk", src |-> root, dest |-> <<>>, flags |-> flags]
  /\ pc' = "walk"
  /\ wstack' = <<Frame(<<>>)>>
  /\ trace' = <<>>
  /\ pending' = {}
  /\ result' = "pending"
  /\ muts' = <<>>
  /\ existentPaths' = NoPaths
  /\ ncalls' = ncalls + 1
  /\ fs0' = fs
  /\ UNCHANGED <<fs, hist>>
  /\ UNCHANGED evars

\* what a visitor may return: exactly false, or anything else
VisitorResults == {"false", "undefined"}

\* the promise of a visitor call is fulfilled with r
VisitorSettle(r) ==
  /\ pc = "walk"
  /\ \E i \in pending :
       /\ trace' = [trace EXCEPT ![i].res = r]
       /\ pending' = pending \ {i}
       /\ wstack' = Resume(r)
  /\ UNCHANGED <<fs, op, pc, existentPaths, result, muts, ncalls, hist, fs0>>
  /\ UNCHANGED evars

\* the visitor throws, or its promise is rejected
VisitorThrow ==
  /\ pc = "walk"
  /\ \E i \in pending :
       /\ trace' = [trace EXCEPT ![i].res = "throw"]
       /\ pending' = pending \ {i}
       /\ Reject("EVISITOR", [trace EXCEPT ![i].res = "throw"], muts)
  /\ UNCHANGED <<fs, op, existentPaths, muts, ncalls, fs0>>
  /\ UNCHANGED evars

WalkTrees == Trees(MaxEntries, {"file", "dir"})

InitWalk ==
  /\ \E srcRoot \in {"dir", "none"}, st \in WalkTrees :
       /\ srcRoot = "none" => st = EmptyTree
       /\ fs = MkFs(srcRoot, st, "none", EmptyTree, FALSE)
  /\ Idle

NextWalk ==
  \/ (ncalls = 0 /\ \E flags \in WalkFlagSet : walk(SRC, flags))
  \/ Readdir
  \/ Invoke
  \/ Descend
  \/ Return
  \/ \E r \in VisitorResults : VisitorSettle(r)
  \/ VisitorThrow

SpecWalk == InitWalk /\ [][NextWalk]_vars

----------------------------------------------------------------------------
(* remove, __symlinkFile and the two mirrors *)

\* mutating calls, marked with the pass of the operation that made them
During(mut, pass) ==
  [i \in 1..Len(mut) |->
     [fn |-> mut[i].fn, path |-> mut[i].path, gone |-> mut[i].gone, pass |-> pass]]

\* the outcome of a primitive run after r, in the file system r left
Then(r, n) == [fs |-> n.fs, err |-> n.err, mut |-> r.mut \o n.mut]

\* a remove that rejects when there is nothing at the path
removeStrict(f, p) == IF Lstat(f, p).kind = "none" THEN Fail(f, "ENOENT") ELSE rmdir(f, p)

\* lines 259-261
remove(f, p) == rmdir(f, p)

\* lines 244-245, 248-249: await remove(dest); await symlinkFile(resolvedSrc, dest)
Relink(f, resolvedSrc, dest) ==
  LET gone == remove(f, dest) IN Then(gone, symlinkFile(gone.fs, resolvedSrc, dest))

\* line 235: flags & SYMLINK_EXCL || !existsSync(dest)
LinkUnconditionally(f, dest, flags) == HasFlag(flags, SYMLINK_EXCL) \/ ~existsSync(f, dest)

\* an existing link is replaced without a look at its target
SymlinkFileRelinks(f, src, dest, flags) ==
  IF LinkUnconditionally(f, dest, flags) THEN symlinkFile(f, resolve(src), dest)
  ELSE Relink(f, resolve(src), dest)

\* lines 232-252
__symlinkFile(f, src, dest, flags) ==
  LET resolvedSrc == resolve(src) IN
  IF LinkUnconditionally(f, dest, flags) THEN symlinkFile(f, resolvedSrc, dest)
  ELSE IF Lstat(f, dest).kind = "link"
       THEN IF resolvedSrc # readlink(f, dest) THEN Relink(f, resolvedSrc, dest) ELSE Ok(f, <<>>)
       ELSE Relink(f, resolvedSrc, dest)

\* the single file is copied without the mkdir of line 113
CopyOneFileNoMkdir(f, src, dest, flags) == copyFile(f, src, dest, HasFlag(flags, COPY_EXCL))

\* the single file is copied without a look at COPY_EXCL
CopyOneFileOverwrites(f, src, dest, flags) ==
  LET made == mkdir(f, dirname(dest), TRUE)
  IN IF made.err # "" THEN made ELSE Then(made, copyFile(made.fs, src, dest, FALSE))

\* lines 109-115: copy of a single file
CopyOneFile(f, src, dest, flags) ==
  LET excl == HasFlag(flags, COPY_EXCL)
      made == IF excl THEN Ok(f, <<>>) ELSE mkdir(f, dirname(dest), TRUE)
  IN IF made.err # "" THEN made ELSE Then(made, copyFile(made.fs, src, dest, excl))

\* lines 175-178: symlink of a single file
SymlinkOneFile(f, src, dest, flags) ==
  LET made == IF HasFlag(flags, SYMLINK_EXCL) THEN Ok(f, <<>>) ELSE mkdir(f, dirname(dest), TRUE)
  IN IF made.err # "" THEN made ELSE Then(made, __symlinkFile(made.fs, src, dest, flags))

\* lines 136-138, 199-201
Push(ex, destPath) == IF ex.on THEN [ex EXCEPT !.list = Append(@, destPath)] ELSE ex

\* existentPaths.includes(destPath)
Includes(list, destPath) == \E i \in 1..Len(list) : list[i] = destPath

\* the walker of __copy creates no directories
CopyEntryFilesOnly(f, src, dest, flags, path, isDirectory) ==
  IF isDirectory THEN Ok(f, <<>>)
  ELSE copyFile(f, join(src, path), join(dest, path), FALSE)

\* lines 139-143: the walker of __copy
CopyEntry(f, src, dest, flags, path, isDirectory) ==
  IF isDirectory THEN mkdir(f, join(dest, path), ~HasFlag(flags, COPY_EXCL))
  ELSE copyFile(f, join(src, path), join(dest, path), FALSE)

\* lines 202-206: the walker of __symlink (it passes no flags to __symlinkFile)
SymlinkEntry(f, src, dest, flags, path, isDirectory) ==
  IF isDirectory THEN mkdir(f, join(dest, path), ~HasFlag(flags, SYMLINK_EXCL))
  ELSE __symlinkFile(f, join(src, path), join(dest, path), 0)

\* the second pass looks the relative path up, not the destination path
PruneEntryRelative(f, ex, dest, path) ==
  IF ~Includes(ex.list, path)
  THEN [r |-> remove(f, join(dest, path)), res |-> "false"]
  ELSE [r |-> Ok(f, <<>>), res |-> "undefined"]

\* the second pass deletes a stale entry and lets the walk go on below it
PruneEntryDescends(f, ex, dest, path) ==
  IF ~Includes(ex.list, join(dest, path))
  THEN [r |-> remove(f, join(dest, path)), res |-> "undefined"]
  ELSE [r |-> Ok(f, <<>>), res |-> "undefined"]

\* lines 152-156: the walker of the second pass
PruneEntry(f, ex, dest, path) ==
  IF ~Includes(ex.list, join(dest, path))
  THEN [r |-> remove(f, join(dest, path)), res |-> "false"]
  ELSE [r |-> Ok(f, <<>>), res |-> "undefined"]

\* the model's path universe holds every path the mirror of src at dest names
Fits(src, dest) == \A p \in Below(fs, src) : join(dest, p) \in Paths

\* a call of copy or symlink: stat(src), then the single-file case in one
\* step, or the prologue of __copy/__symlink (lines 127-131, 190-194)
CallMirror(name, src, dest, flags, exclBit, pruneBit, one) ==
  /\ pc = "idle"
  /\ dest \in Paths /\ Fits(src, dest)
  /\ LET o == [name |-> name, src |-> src, dest |-> dest, flags |-> flags]
         srcStat == Stat(fs, src)
         mk == mkdir(fs, dest, ~HasFlag(flags, exclBit))
     IN /\ op' = o
        /\ ncalls' = ncalls + 1
        /\ fs0' = fs
        /\ trace' = <<>>
        /\ pending' = {}
        /\ IF srcStat.kind = "none"
           THEN /\ fs' = fs /\ muts' = <<>> /\ existentPaths' = NoPaths
                /\ Settled(o, "ENOENT", <<>>, <<>>)
           ELSE IF srcStat.kind = "dir"
           THEN /\ existentPaths' = [on |-> HasFlag(flags, pruneBit), list |-> <<>>]
                /\ fs' = mk.fs /\ muts' = During(mk.mut, "call")
                /\ IF mk.err # "" THEN Settled(o, mk.err, <<>>, During(mk.mut, "call"))
                   ELSE /\ wstack' = <<Frame(<<>>)>>
                        /\ pc' = "mirror"
                        /\ result' = "pending"
                        /\ UNCHANGED hist
           ELSE /\ fs' = one.fs /\ muts' = During(one.mut, "call") /\ existentPaths' = NoPaths
                /\ Settled(o, IF one.err = "" THEN "ok" ELSE one.err, <<>>, During(one.mut, "call"))
  /\ UNCHANGED evars

\* copy (lines 103-117) and the prologue of __copy (lines 127-131)
copy(src, dest, flags) ==
  CallMirror("copy", src, dest, flags, COPY_EXCL, COPY_RMNONEXISTENT,
             CopyOneFile(fs, src, dest, flags))

\* symlink (lines 169-180) and the prologue of __symlink (lines 190-194)
symlink(src, dest, flags) ==
  CallMirror("symlink", src, dest, flags, SYMLINK_EXCL, SYMLINK_RMNONEXISTENT,
             SymlinkOneFile(fs, src, dest, flags))

\* a walker call of a mirror settles and its error is dropped
WalkerSettlesSuppressed(i, ex, r, res) ==
  /\ existentPaths' = ex
  /\ fs' = r.fs
  /\ muts' = muts \o During(r.mut, pc)
  /\ trace' = [trace EXCEPT ![i].res = IF r.err = "" THEN res ELSE "throw"]
  /\ pending' = pending \ {i}
  /\ wstack' = Resume(res)
  /\ UNCHANGED <<op, pc, result, hist, ncalls, fs0>>
  /\ UNCHANGED evars

\* a walker call of a mirror settles: r is what its file system calls did
WalkerSettles(i, ex, r, res) ==
  LET tr == [trace EXCEPT ![i].res = IF r.err = "" THEN res ELSE "throw"]
      ms == muts \o During(r.mut, pc)
  IN
  /\ existentPaths' = ex
  /\ fs' = r.fs
  /\ muts' = ms
  /\ trace' = tr
  /\ pending' = pending \ {i}
  /\ IF r.err # "" THEN Reject(r.err, tr, ms)
     ELSE wstack' = Resume(res) /\ UNCHANGED <<pc, result, hist>>
  /\ UNCHANGED <<op, ncalls, fs0>>
  /\ UNCHANGED evars

\* lines 133-144
CopyWalker ==
  /\ pc = "mirror" /\ op.name = "copy"
  /\ \E i \in pending :
       WalkerSettles(i, Push(existentPaths, join(op.dest, trace[i].path)),
                     CopyEntry(fs, op.src, op.dest, op.flags, trace[i].path, trace[i].kind = "dir"),
                     "undefined")

\* lines 196-207
SymlinkWalker ==
  /\ pc = "mirror" /\ op.name = "symlink"
  /\ \E i \in pending :
       WalkerSettles(i, Push(existentPaths, join(op.dest, trace[i].path)),
                     SymlinkEntry(fs, op.src, op.dest, op.flags, trace[i].path, trace[i].kind = "dir"),
                     "undefined")

\* the second pass starts whatever existentPaths is
PruneStartAlways ==
  /\ pc = "mirrored"
  /\ wstack' = <<Frame(<<>>)>>
  /\ pc' = "prune"
  /\ UNCHANGED <<fs, op, trace, pending, existentPaths, result, muts, ncalls, hist, fs0>>
  /\ UNCHANGED evars

\* lines 146-147, 209-210: the second pass starts if existentPaths is an array
PruneStart ==
  /\ pc = "mirrored"
  /\ IF existentPaths.on
     THEN /\ wstack' = <<Frame(<<>>)>>
          /\ pc' = "prune"
          /\ UNCHANGED <<result, hist>>
     ELSE Resolve(trace, muts)
  /\ UNCHANGED <<fs, op, trace, pending, existentPaths, muts, ncalls, fs0>>
  /\ UNCHANGED evars

\* lines 149-157, 212-220
PruneWalker ==
  /\ pc = "prune"
  /\ \E i \in pending :
       LET e == PruneEntry(fs, existentPaths, op.dest, trace[i].path) IN
       WalkerSettles(i, existentPaths, e.r, e.res)

CopyFlagSet == {0, COPY_EXCL, COPY_RMNONEXISTENT, COPY_EXCL + COPY_RMNONEXISTENT}
SymlinkFlagSet == {0, SYMLINK_EXCL, SYMLINK_RMNONEXISTENT, SYMLINK_EXCL + SYMLINK_RMNONEXISTENT}

\* the (src, dest) pairs of the calls: the two roots, a file into dest, and a
\* file below a directory of dest that may be missing
MirrorArgs ==
  {<<SRC, DEST>>, <<join(SRC, <<"a">>), join(DEST, <<"b">>)>>,
   <<join(SRC, <<"a">>), join(DEST, <<"a", "b">>)>>}

MirrorSrcTrees == Trees(MaxMirrorEntries, {"file", "dir"})
MirrorDestTrees == Trees(MaxMirrorEntries, {"file", "dir", "link", "xlink"})

\* symbolic links of the model lead to files or nowhere
LinksLeadToFiles(st, dt) == \A p \in RelPaths : dt[p] = "link" => st[p] # "dir"

InitMirror ==
  /\ \E st \in MirrorSrcTrees, destRoot \in {"dir", "none", "file"},
        dt \in MirrorDestTrees, outside \in BOOLEAN :
       /\ destRoot # "dir" => dt = EmptyTree
       /\ LinksLeadToFiles(st, dt)
       /\ outside => \E p \in RelPaths : dt[p] = "xlink"
       /\ fs = MkFs("dir", st, destRoot, dt, outside)
  /\ Idle

NextMirror ==
  \/ (ncalls = 0 /\ \E a \in MirrorArgs, flags \in CopyFlagSet : copy(a[1], a[2], flags))
  \/ (ncalls = 0 /\ \E a \in MirrorArgs, flags \in SymlinkFlagSet : symlink(a[1], a[2], flags))
  \/ Readdir
  \/ Invoke
  \/ Return
  \/ CopyWalker
  \/ SymlinkWalker
  \/ PruneStart
  \/ PruneWalker

SpecMirror == InitMirror /\ [][NextMirror]_vars

----------------------------------------------------------------------------
(* The test 'copy' of the suite: copy into a directory that does not exist, *)
(* then walk src and walk dest with a visitor that records the path.        *)

\* what `path => files.push(path)` returns: the new length
PushResult == "number"

CopyWalkTrees == Trees(MaxEntries, {"file", "dir", "xlink"})

InitCopyWalk ==
  /\ \E st \in CopyWalkTrees, outside \in BOOLEAN :
       /\ outside => \E p \in RelPaths : st[p] = "xlink"
       /\ fs = MkFs("dir", st, "none", EmptyTree, outside)
  /\ Idle

NextCopyWalk ==
  \/ (ncalls = 0 /\ copy(SRC, DEST, 0))
  \/ (ncalls = 1 /\ \E flags \in {0, WALK_FILEFIRST} : walk(SRC, flags))
  \/ (ncalls = 2 /\ walk(DEST, op.flags))
  \/ Readdir
  \/ Invoke
  \/ Descend
  \/ Return
  \/ CopyWalker
  \/ PruneStart
  \/ VisitorSettle(PushResult)

SpecCopyWalk == InitCopyWalk /\ [][NextCopyWalk]_vars

----------------------------------------------------------------------------
(* symlink called twice on one dest: again with the same arguments, or with *)
(* another source.                                                          *)

LinkFlagSet == {0, SYMLINK_RMNONEXISTENT}

LinkArgs ==
  {<<SRC, DEST>>, <<join(SRC, <<"a">>), join(DEST, <<"a">>)>>,
   <<join(SRC, <<"b">>), join(DEST, <<"a">>)>>}

LinkDestTrees == Trees(MaxLinkDestEntries, {"file", "dir", "link", "xlink"})

InitLink ==
  /\ \E st \in MirrorSrcTrees, destRoot \in {"dir", "none"},
        dt \in LinkDestTrees, outside \in BOOLEAN :
       /\ destRoot # "dir" => dt = EmptyTree
       /\ LinksLeadToFiles(st, dt)
       /\ outside => \E p \in RelPaths : dt[p] = "xlink"
       /\ fs = MkFs("dir", st, destRoot, dt, outside)
  /\ Idle

\* the second call follows a first one that resolved; the same source is
\* given the same flags
SymlinkAgain ==
  /\ ncalls = 1 /\ pc = "idle" /\ result = "ok"
  /\ \E a \in LinkArgs, flags \in LinkFlagSet :
       /\ a[2] = op.dest
       /\ a[1] = op.src => flags = op.flags
       /\ symlink(a[1], a[2], flags)

NextLink ==
  \/ (ncalls = 0 /\ \E a \in LinkArgs, flags \in LinkFlagSet : symlink(a[1], a[2], flags))
  \/ SymlinkAgain
  \/ Readdir
  \/ Invoke
  \/ Return
  \/ SymlinkWalker
  \/ PruneStart
  \/ PruneWalker

SpecLink == InitLink /\ [][NextLink]_vars

----------------------------------------------------------------------------
(* remove called once or twice, as a public primitive *)

RemovePaths ==
  {SRC, DEST, OUTSIDE, join(SRC, <<"a">>), join(SRC, <<"a", "b">>),
   join(DEST, <<"a">>), join(DEST, <<"b">>)}

\* a call of remove (lines 259-261): its one await
Remove(path) ==
  /\ pc = "idle"
  /\ LET o == [name |-> "remove", src |-> path, dest |-> <<>>, flags |-> 0]
         r == remove(fs, path)
     IN /\ op' = o
        /\ fs' = r.fs
        /\ fs0' = fs
        /\ muts' = During(r.mut, "call")
        /\ trace' = <<>>
        /\ pending' = {}
        /\ existentPaths' = NoPaths
        /\ ncalls' = ncalls + 1
        /\ Settled(o, IF r.err = "" THEN "ok" ELSE r.err, <<>>, During(r.mut, "call"))
  /\ UNCHANGED evars

InitRemove ==
  /\ \E st \in MirrorSrcTrees, destRoot \in {"dir", "none"},
        dt \in LinkDestTrees, outside \in BOOLEAN :
       /\ destRoot # "dir" => dt = EmptyTree
       /\ LinksLeadToFiles(st, dt)
       /\ fs = MkFs("dir", st, destRoot, dt, outside)
  /\ Idle

NextRemove == ncalls < 2 /\ \E path \in RemovePaths : Remove(path)

SpecRemove == InitRemove /\ [][NextRemove]_vars

----------------------------------------------------------------------------
(* One call that may fail: walk with a visitor that may throw, on a root    *)
(* that may be missing or a file; copy or symlink of a src that may be      *)
(* missing, into a dest whose entries may be in the way.                    *)

WalkRoots == {SRC, join(SRC, <<"a">>)}

InitFail ==
  /\ \E srcRoot \in {"dir", "none"}, st \in MirrorSrcTrees, destRoot \in {"dir", "none"},
        dt \in LinkDestTrees, outside \in BOOLEAN :
       /\ srcRoot = "none" => st = EmptyTree
       /\ destRoot # "dir" => dt = EmptyTree
       /\ LinksLeadToFiles(st, dt)
       /\ outside => \E p \in RelPaths : dt[p] = "xlink"
       /\ fs = MkFs(srcRoot, st, destRoot, dt, outside)
  /\ Idle

NextFail ==
  \/ (ncalls = 0 /\ \E root \in WalkRoots, flags \in WalkFlagSet : walk(root, flags))
  \/ (ncalls = 0 /\ \E a \in MirrorArgs, flags \in CopyFlagSet : copy(a[1], a[2], flags))
  \/ (ncalls = 0 /\ \E a \in MirrorArgs, flags \in SymlinkFlagSet : symlink(a[1], a[2], flags))
  \/ Readdir
  \/ Invoke
  \/ Descend
  \/ Return
  \/ \E r \in VisitorResults : VisitorSettle(r)
  \/ VisitorThrow
  \/ CopyWalker
  \/ SymlinkWalker
  \/ PruneStart
  \/ PruneWalker

SpecFail == InitFail /\ [][NextFail]_vars

----------------------------------------------------------------------------
(* An EventEmitter and its callers: on, once, delete and emit in any order, *)
(* also while an emit is suspended on a listener it awaits (line 35).       *)

\* the listeners of once that a step called
JustCalled(em, next) ==
  {OnceListener(k) : k \in {j \in 1..Len(em.onces) : next.onces[j].calls > em.onces[j].calls}}

\* a step of the emitter: the listeners it called are no longer registered
EmitterStep(next) ==
  /\ emitter' = next
  /\ registered' = [e \in Events |-> registered[e] \ JustCalled(emitter, next)]
  /\ UNCHANGED fsvars

On(event, listener) ==
  /\ emitter.calls < MaxEmitterCalls
  /\ emitter' = on(emitter, event, listener)
  /\ registered' = [registered EXCEPT ![event] = @ \cup {listener}]
  /\ UNCHANGED fsvars

Delete(event, listener) ==
  /\ emitter.calls < MaxEmitterCalls
  /\ emitter' = delete(emitter, event, listener)
  /\ registered' = [registered EXCEPT ![event] = @ \ {listener}]
  /\ UNCHANGED fsvars

Once(event) ==
  /\ emitter.calls < MaxEmitterCalls
  /\ emitter' = once(emitter, event)
  /\ registered' = [registered EXCEPT ![event] = @ \cup {OnceListener(Len(emitter.onces) + 1)}]
  /\ UNCHANGED fsvars

Emit(event) ==
  /\ emitter.calls < MaxEmitterCalls
  /\ EmitterStep(emit(emitter, event))

\* the awaited listener call of emit i settles and the loop goes on
ListenerSettles(i) ==
  /\ emitter.emits[i].st = "await"
  /\ EmitterStep(Iterate(emitter, i))

\* the awaited listener call of emit i rejects: the emit rejects
ListenerThrows(i) ==
  /\ emitter.emits[i].st = "await"
  /\ emitter.emits[i].cur.kind = "on"
  /\ EmitterStep([emitter EXCEPT !.emits[i].st = "rejected"])

InitEvents ==
  /\ fs = MkFs("none", EmptyTree, "none", EmptyTree, FALSE)
  /\ Idle

NextEvents ==
  \/ \E event \in Events, listener \in UserListeners : On(event, listener)
  \/ \E event \in Events, listener \in UserListeners : Delete(event, listener)
  \/ \E event \in Events : Once(event)
  \/ \E event \in Events : Emit(event)
  \/ \E i \in 1..Len(emitter.emits) : ListenerSettles(i)
  \/ \E i \in 1..Len(emitter.emits) : ListenerThrows(i)

SpecEvents == InitEvents /\ [][NextEvents]_vars

----------------------------------------------------------------------------
(* Properties of walk *)

TraceIdx == 1..Len(trace)
Count(p) == Cardinality({i \in TraceIdx : trace[i].path = p})
WalkDone == op.name = "walk" /\ pc = "idle"
PostOrder == HasFlag(op.flags, WALK_FILEFIRST)
\* the directories for which the visitor returned exactly false
FalseDirs == {trace[i].path : i \in {j \in TraceIdx : trace[j].kind = "dir" /\ trace[j].res = "false"}}
UnderFalseDir(p) == \E d \in FalseDirs : IsStrictPrefix(d, p)

\* C1: in either order, a walk over an existing root whose visitor never
\* returns false and never throws calls the visitor exactly once for every
\* entry strictly below root, with its root-relative path and kind, never for
\* root itself or a path not in the tree, and resolves.
C1_VisitsEveryEntryOnce ==
  op.name = "walk" =>
    /\ \A i \in TraceIdx :
         /\ trace[i].path \in Below(fs, op.src)
         /\ trace[i].kind = Lstat(fs, join(op.src, trace[i].path)).kind
         /\ Count(trace[i].path) = 1
    /\ (/\ pc = "idle"
        /\ Stat(fs, op.src).kind = "dir"
        /\ \A i \in TraceIdx : trace[i].res \notin {"false", "throw"})
       => /\ result = "ok"
          /\ \A p \in RelPaths0 : Count(p) = IF p \in Below(fs, op.src) THEN 1 ELSE 0

C1_Witness ==
  /\ WalkDone /\ result = "ok" /\ PostOrder
  /\ Len(trace) = 4
  /\ \E i \in TraceIdx : Len(trace[i].path) = 2
  /\ \A i \in TraceIdx : trace[i].res = "undefined"

\* C2: in pre-order a directory is visited before all of its descendants; a
\* result of exactly false for a directory suppresses every call for its
\* descendants while every other entry is still visited exactly once; any
\* other result continues descent and false for a file changes nothing.
C2_PreOrderAndSkip ==
  (op.name = "walk" /\ ~PostOrder) =>
    /\ \A i, j \in TraceIdx :
         IsStrictPrefix(trace[i].path, trace[j].path) => i < j
    /\ \A j \in TraceIdx : ~UnderFalseDir(trace[j].path)
    /\ (pc = "idle" /\ result = "ok") =>
         \A p \in Below(fs, op.src) : Count(p) = IF UnderFalseDir(p) THEN 0 ELSE 1

C2_Witness ==
  /\ WalkDone /\ result = "ok" /\ ~PostOrder
  /\ \E d \in FalseDirs : \E p \in Below(fs, op.src) : IsStrictPrefix(d, p)
  /\ \E i, j \in TraceIdx :
       /\ trace[i].kind = "dir" /\ trace[i].res = "undefined"
       /\ IsStrictPrefix(trace[i].path, trace[j].path)

\* C3: in post-order a directory is visited after all of its descendants, and
\* the visitor's results, false included, do not change which entries are
\* visited: every entry below root is visited exactly once.
C3_PostOrderIgnoresResult ==
  (op.name = "walk" /\ PostOrder) =>
    /\ \A i, j \in TraceIdx :
         IsStrictPrefix(trace[i].path, trace[j].path) => j < i
    /\ (pc = "idle" /\ result = "ok") =>
         \A p \in RelPaths0 : Count(p) = IF p \in Below(fs, op.src) THEN 1 ELSE 0

C3_Witness ==
  /\ WalkDone /\ result = "ok" /\ PostOrder
  /\ \E d \in FalseDirs : \E i \in TraceIdx : IsStrictPrefix(d, trace[i].path)

\* C7: at most one visitor invocation is in flight: while one is pending it is
\* the latest call and the walk is suspended on it, so neither the next call
\* nor the next directory listing starts before it settles.
C7_OneVisitorInFlight ==
  /\ pending \subseteq {Len(trace)}
  /\ pending # {} => (wstack # <<>> /\ Top.st = "await")

C7_Witness ==
  /\ op.name = "walk" /\ pending = {3} /\ Len(wstack) = 2
  /\ trace[1].res = "undefined" /\ trace[2].res = "undefined"

----------------------------------------------------------------------------
(* Properties of the mirrors *)

IsMirror == op.name \in {"copy", "symlink"}
MirrorDone == IsMirror /\ pc = "idle"
\* pruneStale: COPY_RMNONEXISTENT for copy, SYMLINK_RMNONEXISTENT for symlink
PruneStale ==
  \/ op.name = "copy" /\ HasFlag(op.flags, COPY_RMNONEXISTENT)
  \/ op.name = "symlink" /\ HasFlag(op.flags, SYMLINK_RMNONEXISTENT)
\* a directory mirror into a destination directory that existed at the call
DirMirror == IsMirror /\ Stat(fs0, op.src).kind = "dir"
DestExisted == Lstat(fs0, op.dest).kind = "dir"

\* dest/p is what the mirror makes of src/p
Mirrored(p) ==
  LET s == Lstat(fs0, join(op.src, p))
      d == Lstat(fs, join(op.dest, p))
  IN IF s.kind = "dir" THEN d.kind = "dir"
     ELSE IF op.name = "copy" THEN d = FileEntry(s.data)
     ELSE d = LinkEntry(resolve(join(op.src, p)))

\* C4: with pruneStale, a directory mirror into an existing dest that
\* completes leaves under dest exactly the relative paths of src, each with
\* the kind of its source: a directory, a copied file, or a link.
C4_PruneLeavesExactMirror ==
  (MirrorDone /\ DirMirror /\ DestExisted /\ PruneStale /\ result = "ok") =>
    /\ Below(fs, op.dest) = Below(fs0, op.src)
    /\ \A p \in Below(fs0, op.src) : Mirrored(p)

\* C4 holds but for copy meeting a symbolic link where src has a file: copyFile
\* writes through the link, which stays in dest.
NoLinkUnderCopiedFile ==
  op.name = "copy" =>
    \A p \in Below(fs0, op.src) :
      Lstat(fs0, join(op.src, p)).kind = "file" => Lstat(fs0, join(op.dest, p)).kind # "link"

C4_ExactMirrorUnlessLinkUnderCopy == NoLinkUnderCopiedFile => C4_PruneLeavesExactMirror

VisitedSet == {existentPaths.list[i] : i \in 1..Len(existentPaths.list)}
MutIdx == 1..Len(muts)
PruneDeletes == {i \in MutIdx : muts[i].pass = "prune" /\ muts[i].fn = "rmdir"}
PruneIdx == {i \in TraceIdx : trace[i].pass = "prune"}

\* C5: the prune pass never deletes a path of the VisitedSet, neither by
\* removing that path nor with the subtree of a stale directory: nothing at or
\* below a path it removes is in the VisitedSet.
C5_PruneSparesVisited ==
  IsMirror =>
    \A i \in PruneDeletes :
      /\ muts[i].gone \cap VisitedSet = {}
      /\ \A q \in VisitedSet : ~IsPrefix(muts[i].path, q)

C5_Witness ==
  /\ MirrorDone /\ result = "ok" /\ VisitedSet # {}
  /\ \E i \in PruneDeletes : Cardinality(muts[i].gone) = 2

\* C6 as stated: the prune pass is post-order, a directory of dest is visited
\* after all of its descendants, and every entry below a directory it deletes
\* was visited (checked against the VisitedSet) before.
C6_PruneIsPostOrder ==
  IsMirror =>
    /\ \A i, j \in PruneIdx : IsStrictPrefix(trace[i].path, trace[j].path) => j < i
    /\ \A i \in PruneDeletes : \A q \in muts[i].gone :
         \E j \in PruneIdx : join(op.dest, trace[j].path) = q

\* C6 amended: the prune pass is pre-order.  A directory of dest is visited
\* before its descendants; a stale entry is deleted, subtree included, at its
\* own visit and nothing below it is visited; the entries the pass visits are
\* exactly those of dest that are not below a stale directory.
C6_PruneIsPreOrder ==
  IsMirror =>
    /\ \A i, j \in PruneIdx : IsStrictPrefix(trace[i].path, trace[j].path) => i < j
    /\ \A i \in PruneIdx :
         trace[i].res = "false" =>
           /\ \A j \in PruneIdx : ~IsStrictPrefix(trace[i].path, trace[j].path)
           /\ ~Includes(existentPaths.list, join(op.dest, trace[i].path))
    /\ \A i \in PruneDeletes :
         \E j \in PruneIdx : join(op.dest, trace[j].path) = muts[i].path
                             /\ trace[j].res = "false"
    /\ (MirrorDone /\ result = "ok" /\ PruneStale /\ DirMirror) =>
         \A p \in RelPaths :
           (\E j \in PruneIdx : trace[j].path = p) <=>
             /\ Lstat(fs, join(op.dest, p)).kind # "none" \/
                  \E i \in PruneDeletes : muts[i].path = join(op.dest, p)
             /\ p # <<>>

C6_Witness ==
  /\ MirrorDone /\ result = "ok"
  /\ \E i \in PruneDeletes :
       /\ Cardinality(muts[i].gone) = 2
       /\ \E q \in muts[i].gone : \A j \in PruneIdx : join(op.dest, trace[j].path) # q

----------------------------------------------------------------------------
(* copy, then walk(src) and walk(dest) *)

\* the (relative path, entry kind) sequence of the visitor calls of a walk
Visited(tr) == [i \in 1..Len(tr) |-> <<tr[i].path, tr[i].kind>>]
VisitedPaths(tr) == [i \in 1..Len(tr) |-> tr[i].path]
\* a symbolic link of src is a regular file in the copy
Dereferenced(tr) ==
  [i \in 1..Len(tr) |-> <<tr[i].path, IF tr[i].kind = "link" THEN "file" ELSE tr[i].kind>>]

BothWalked ==
  /\ Len(hist) = 3
  /\ hist[1].op.name = "copy" /\ hist[1].result = "ok"
  /\ hist[2].op.name = "walk" /\ hist[2].op.src = SRC
  /\ hist[3].op.name = "walk" /\ hist[3].op.src = DEST

\* C8 as stated: after copy(src, dest) into a dest that did not exist,
\* walk(dest) makes the same sequence of (relative path, entry kind) visitor
\* calls as walk(src).
C8_SameVisitsAfterCopy ==
  BothWalked => Visited(hist[3].trace) = Visited(hist[2].trace)

\* C8 amended: walk(dest) makes the same sequence of relative paths as
\* walk(src), with the same entry kinds except that a symbolic link of src is
\* a regular file in dest.
C8_SamePathsAfterCopy ==
  BothWalked =>
    /\ hist[2].result = "ok" /\ hist[3].result = "ok"
    /\ VisitedPaths(hist[3].trace) = VisitedPaths(hist[2].trace)
    /\ Visited(hist[3].trace) = Dereferenced(hist[2].trace)

C8_Witness ==
  /\ BothWalked
  /\ Len(hist[3].trace) = 4
  /\ \E i \in 1..4 : hist[2].trace[i].kind = "link" /\ Len(hist[2].trace[i].path) = 2
  /\ \E i \in 1..4 : hist[2].trace[i].kind = "dir" /\ hist[2].trace[i].path = <<"b">>

----------------------------------------------------------------------------
(* symlink called twice *)

NonExclusive == ~HasFlag(op.flags, SYMLINK_EXCL)

\* the call in progress repeats the one before it, which resolved
Repeated ==
  /\ op.name = "symlink" /\ ncalls = 2 /\ Len(hist) >= 1
  /\ hist[1].result = "ok"
  /\ hist[1].op = op
  /\ NonExclusive

\* dest links to the resolved source: the file, or every file of the tree
LinksToSource ==
  IF Stat(fs0, op.src).kind = "dir"
  THEN \A p \in Below(fs0, op.src) : Mirrored(p)
  ELSE Lstat(fs, op.dest) = LinkEntry(resolve(op.src))

\* C9: a second non-exclusive symlink(src, dest), src and dest unchanged since
\* the first call resolved, makes no mutating file system call, for a file and
\* for a directory, and dest is left linking to the resolved source path(s).
C9_SecondSymlinkMutatesNothing ==
  Repeated =>
    /\ muts = <<>>
    /\ fs = fs0
    /\ LinksToSource
    /\ pc = "idle" => result = "ok"

C9_Witness ==
  /\ Repeated /\ pc = "idle" /\ result = "ok"
  /\ op.src = SRC
  /\ \E p \in Below(fs, op.dest) : Lstat(fs, join(op.dest, p)).kind = "link"
  /\ hist[1].muts # <<>>

\* the single-file case of symlink met, at the call, an entry at dest that is
\* not already the wanted link
Replaces ==
  /\ op.name = "symlink" /\ NonExclusive
  /\ Stat(fs0, op.src).kind = "file"
  /\ Lstat(fs0, op.dest).kind # "none"
  /\ Lstat(fs0, op.dest) # LinkEntry(resolve(op.src))

\* C10: non-exclusive symlink of a file onto a dest that exists as a symbolic
\* link with another target, whether that target exists or not, or as an entry
\* that is no link, succeeds, deletes dest and recreates it as a link to the
\* resolved source; so symlink(srcA, dest) then symlink(srcB, dest) leaves
\* dest linking to srcB.
C10_SymlinkReplaces ==
  (Replaces /\ pc = "idle") =>
    /\ result = "ok"
    /\ Lstat(fs, op.dest) = LinkEntry(resolve(op.src))
    /\ \E i, j \in MutIdx :
         /\ i < j
         /\ muts[i].fn = "rmdir" /\ muts[i].path = op.dest
         /\ muts[j].fn = "symlink" /\ muts[j].path = op.dest

\* C10 holds but for a dest that is a symbolic link leading nowhere:
\* existsSync follows the link, reports dest absent, and symlinkFile fails
\* with EEXIST.
DestDangles == Lstat(fs0, op.dest).kind = "link" /\ ~existsSync(fs0, op.dest)

C10_ReplacesUnlessDangling == ~DestDangles => C10_SymlinkReplaces

C10_DanglingFails ==
  (Replaces /\ DestDangles /\ pc = "idle") => (result = "EEXIST" /\ fs = fs0)

\* symlink(srcA, dest) resolved, then symlink(srcB, dest) with another file
C10_Retargeted ==
  (Replaces /\ pc = "idle" /\ ncalls = 2 /\ hist[1].op.src # op.src)
    => (result = "ok" /\ Lstat(fs, op.dest) = LinkEntry(resolve(op.src)))

----------------------------------------------------------------------------
(* The exclusive flags *)

\* exclusive: COPY_EXCL for copy, SYMLINK_EXCL for symlink
Exclusive ==
  \/ op.name = "copy" /\ HasFlag(op.flags, COPY_EXCL)
  \/ op.name = "symlink" /\ HasFlag(op.flags, SYMLINK_EXCL)

\* an exclusive mirror of an existing src was called on a dest that existed
Collision ==
  /\ IsMirror /\ Exclusive
  /\ Stat(fs0, op.src).kind # "none"
  /\ Lstat(fs0, op.dest).kind # "none"

\* C11: with the exclusive flag, a mirror whose dest exists fails with EEXIST
\* (AlreadyExists) and leaves the file system as it was: no mutating call is
\* made, no walker is called; for a src that is a file and one that is a
\* directory.
C11_ExclusiveCollisionFails ==
  Collision =>
    /\ pc = "idle" /\ result = "EEXIST"
    /\ fs = fs0
    /\ muts = <<>>
    /\ trace = <<>>

C11_Witness ==
  /\ Collision /\ result = "EEXIST"
  /\ op.name = "copy" /\ op.src = SRC
  /\ Below(fs0, op.src) # {}
  /\ \E p \in Below(fs0, op.dest) : p \notin Below(fs0, op.src)

\* the single file case: dest is a file with other content and stays so
C11_FileWitness ==
  /\ Collision /\ result = "EEXIST"
  /\ Stat(fs0, op.src).kind = "file"
  /\ Lstat(fs, op.dest).kind = "file"
  /\ Lstat(fs, op.dest) # Lstat(fs, op.src)

----------------------------------------------------------------------------
(* Failures *)

\* the call rejected
Failed == pc = "idle" /\ result \notin {"none", "pending", "ok"}
\* the walker calls that failed
Thrown == {i \in TraceIdx : trace[i].res = "throw"}
\* the calls of one pass for one path
CountIn(pass, p) == Cardinality({i \in TraceIdx : trace[i].pass = pass /\ trace[i].path = p})

\* the error of the file system step the walker of a mirror makes for entry i
\* of the trace, in file system f
StepError(f, i) ==
  IF trace[i].pass = "prune" THEN PruneEntry(f, existentPaths, op.dest, trace[i].path).r.err
  ELSE IF op.name = "copy"
  THEN CopyEntry(f, op.src, op.dest, op.flags, trace[i].path, trace[i].kind = "dir").err
  ELSE SymlinkEntry(f, op.src, op.dest, op.flags, trace[i].path, trace[i].kind = "dir").err

\* the error of the first step of a call that failed before any walker call
FirstError ==
  IF op.name = "walk" THEN readdir(fs0, op.src).err
  ELSE IF Stat(fs0, op.src).kind = "none" THEN "ENOENT"
  ELSE IF Stat(fs0, op.src).kind = "dir" THEN mkdir(fs0, op.dest, ~Exclusive).err
  ELSE IF op.name = "copy" THEN CopyOneFile(fs0, op.src, op.dest, op.flags).err
  ELSE SymlinkOneFile(fs0, op.src, op.dest, op.flags).err

\* C12: the first failure of a visitor call or of a file system step aborts the
\* call.  A failed walker call is the last one and the call has rejected; a
\* call that rejected has no activation left and nothing pending, its walker
\* calls and mutating calls are those made up to the rejection (none is
\* retried, none undone), its error is the visitor's or that of the failing
\* step, and no call of the prune pass follows a failure of the primary pass.
C12_FirstFailureAborts ==
  /\ \A i \in Thrown : i = Len(trace) /\ Failed
  /\ \A i \in TraceIdx : CountIn(trace[i].pass, trace[i].path) = 1
  /\ Failed =>
       /\ wstack = <<>> /\ pending = {}
       /\ hist[Len(hist)] = [op |-> op, result |-> result, trace |-> trace, muts |-> muts]
       /\ \A q \in DOMAIN fs :
            fs[q] # fs0[q] => \E i \in MutIdx : muts[i].path = q \/ q \in muts[i].gone
       /\ IF Thrown = {} THEN trace = <<>> /\ result = FirstError
          ELSE IF op.name = "walk" THEN result = "EVISITOR"
          ELSE /\ result = StepError(fs, Len(trace))
               /\ trace[Len(trace)].pass = "mirror" => PruneIdx = {}

\* a walker of a pruning copy fails after the copy changed the file system
C12_Witness ==
  /\ Failed /\ op.name = "copy" /\ PruneStale
  /\ Thrown # {} /\ Len(trace) >= 2
  /\ \E i \in MutIdx : muts[i].pass = "mirror"
  /\ fs # fs0

\* the visitor of a post-order walk throws for a directory, after its entry
C12_WalkWitness ==
  /\ Failed /\ op.name = "walk" /\ result = "EVISITOR" /\ PostOrder
  /\ Len(trace) = 2 /\ trace[1].res = "false"
  /\ trace[2].kind = "dir" /\ trace[2].res = "throw"

----------------------------------------------------------------------------
(* A root or a source that does not exist *)

\* C13: walk on a root that does not exist rejects with ENOENT (NotFound)
\* before any visitor call; copy or symlink of a src that does not exist
\* rejects with ENOENT before any mutating call: the file system is as it
\* was, dest and its parent directories are not created.
C13_MissingSourceIsNotFound ==
  (op.name # "none" /\ Stat(fs0, op.src).kind = "none") =>
    /\ IF pc = "idle" THEN result = "ENOENT"
       ELSE pc = "walk" /\ Top.st = "readdir" /\ Len(wstack) = 1
    /\ trace = <<>>
    /\ muts = <<>>
    /\ fs = fs0

\* a src that is missing, a dest two levels below a directory that is missing
C13_Witness ==
  /\ IsMirror /\ Failed
  /\ Stat(fs0, op.src).kind = "none"
  /\ Len(op.dest) = 3
  /\ Lstat(fs, DEST).kind = "none"

C13_WalkWitness ==
  /\ op.name = "walk" /\ Failed
  /\ Stat(fs0, op.src).kind = "none"
  /\ Lstat(fs0, SRC).kind = "dir"

----------------------------------------------------------------------------
(* copy of a single file *)

\* the directories above p, the working directory included
Parents(p) == {SubSeq(p, 1, k) : k \in 0..(Len(p) - 1)}

\* a non-exclusive copy of a file, to a dest that is free or a file, below
\* directories that exist or are missing
FileCopy ==
  /\ op.name = "copy" /\ ~Exclusive
  /\ Lstat(fs0, op.src).kind = "file"
  /\ Lstat(fs0, op.dest).kind \in {"none", "file"}
  /\ \A q \in Parents(op.dest) : Lstat(fs0, q).kind \in {"none", "dir"}

\* C14: a non-exclusive copy of a single file to a dest whose parent
\* directories, at any depth, do not exist resolves, has made every one of
\* them a directory and dest a file with the content of src; a file at dest is
\* overwritten; nothing else is changed.
C14_FileCopyMakesParents ==
  FileCopy =>
    /\ pc = "idle" /\ result = "ok"
    /\ \A q \in Parents(op.dest) : Lstat(fs, q).kind = "dir"
    /\ Lstat(fs, op.dest) = FileEntry(Lstat(fs0, op.src).data)
    /\ \A q \in DOMAIN fs : (q # op.dest /\ q \notin Parents(op.dest)) => fs[q] = fs0[q]
    /\ \A i \in MutIdx :
         \/ muts[i].fn = "mkdir" /\ muts[i].path \in Parents(op.dest)
                                 /\ Lstat(fs0, muts[i].path).kind = "none"
         \/ muts[i].fn = "copyFile" /\ muts[i].path = op.dest /\ i = Len(muts)

\* dest two levels below a directory that did not exist
C14_Witness ==
  /\ FileCopy /\ result = "ok"
  /\ Len(op.dest) = 3
  /\ Lstat(fs0, DEST).kind = "none"
  /\ Len(muts) = 3

\* dest was a file with other content
C14_OverwriteWitness ==
  /\ FileCopy /\ result = "ok"
  /\ Lstat(fs0, op.dest).kind = "file"
  /\ Lstat(fs0, op.dest) # Lstat(fs0, op.src)
  /\ Lstat(fs, op.dest) = Lstat(fs, op.src)

----------------------------------------------------------------------------
(* remove *)

\* f with nothing at p or below it
Without(f, p) == [q \in DOMAIN f |-> IF IsPrefix(p, q) THEN NoEntry ELSE f[q]]

\* the call repeats the one before it
RemovedAgain == op.name = "remove" /\ ncalls = 2 /\ hist[1].op = op

\* C15: remove is idempotent.  It resolves for a path where nothing is and
\* changes nothing; for a file, a link or a directory with entries it leaves
\* the path and all below it absent and every other entry as it was; a second
\* remove of the same path resolves and leaves the file system as the first
\* left it.
C15_RemoveIsIdempotent ==
  op.name = "remove" =>
    /\ pc = "idle" /\ result = "ok"
    /\ fs = Without(fs0, op.src)
    /\ Lstat(fs0, op.src).kind = "none" => (fs = fs0 /\ muts = <<>>)
    /\ RemovedAgain => (fs = fs0 /\ muts = <<>> /\ hist[1].result = "ok")

\* a directory with an entry was removed, then removed again
C15_Witness ==
  /\ RemovedAgain /\ result = "ok"
  /\ Cardinality(hist[1].muts[1].gone) >= 2
  /\ \E q \in DOMAIN fs : ~IsPrefix(op.src, q) /\ fs[q].kind = "file"

\* a link was removed and what it led to stays
C15_LinkWitness ==
  /\ op.name = "remove" /\ ncalls = 1
  /\ Lstat(fs0, op.src).kind = "link"
  /\ Stat(fs0, op.src).kind = "file"
  /\ Stat(fs, Lstat(fs0, op.src).data).kind = "file"

----------------------------------------------------------------------------
(* The prune pass and the entries of dest that src does not have *)

\* the call failed in its primary pass or before it
PrimaryFailed ==
  \/ Thrown # {} /\ trace[Len(trace)].pass = "mirror"
  \/ Thrown = {} /\ FirstError # ""

\* C16: the prune pass never lists a directory its walker deleted: every
\* directory it lists or has an activation for exists, no walker call is made
\* for a path below one it removed, and the pass never fails: a mirror that
\* rejects failed in its primary pass or before it.
C16_PruneNeverListsDeleted ==
  IsMirror =>
    /\ pc = "prune" =>
         \A k \in 1..Len(wstack) : Stat(fs, join(op.dest, wstack[k].path)).kind = "dir"
    /\ \A i \in PruneDeletes : \A j \in PruneIdx :
         ~IsStrictPrefix(muts[i].path, join(op.dest, trace[j].path))
    /\ \A j \in PruneIdx : trace[j].res # "throw"
    /\ Failed => PrimaryFailed

\* a stale directory with an entry and a stale file were removed, and the call
\* resolved
C16_Witness ==
  /\ MirrorDone /\ result = "ok" /\ op.name = "symlink"
  /\ Cardinality(PruneDeletes) = 2
  /\ \E i \in PruneDeletes : Cardinality(muts[i].gone) = 1
  /\ \E i \in PruneDeletes : Lstat(fs0, muts[i].path).kind = "dir"

\* an entry of dest with no counterpart in src
Extra(p) == p \in Below(fs0, op.dest) /\ p \notin Below(fs0, op.src)
Untouched(p) == Lstat(fs, join(op.dest, p)) = Lstat(fs0, join(op.dest, p))
\* no VisitedSet, no second walk
NoSecondPass ==
  /\ ~existentPaths.on /\ existentPaths.list = <<>>
  /\ pc # "prune" /\ PruneIdx = {}
  /\ \A i \in MutIdx : muts[i].pass # "prune"

BelowReplaced(p) ==
  /\ op.name = "symlink"
  /\ \E q \in Below(fs0, op.src) :
       /\ IsStrictPrefix(q, p)
       /\ Lstat(fs0, join(op.src, q)).kind # "dir"
       /\ Lstat(fs0, join(op.dest, q)).kind = "dir"

C17_ReplacedWitness ==
  /\ MirrorDone /\ DirMirror /\ ~PruneStale /\ result = "ok"
  /\ \E p \in RelPaths : Extra(p) /\ BelowReplaced(p) /\ ~Untouched(p)

----------------------------------------------------------------------------
(* EventEmitter *)

OnceIdx == 1..Len(emitter.onces)
\* the listeners in the Set the map holds for event
Listening(event) ==
  IF has(emitter, event) THEN SetOf(emitter.sets[emitter.events[event]]) ELSE {}
\* the listener is in some Set, in the map or not
InSomeSet(listener) == \E s \in 1..Len(emitter.sets) : listener \in SetOf(emitter.sets[s])

\* C18: after any interleaving of on, once, delete and emit, with listeners
\* still awaited inside running emits, the listeners map holds no event with
\* an empty Set: has(event) is true exactly when a listener registered by on
\* or by a once that was not called yet is registered for the event, and the
\* Set of the event holds exactly those; a listener of once is called at most
\* once and, once called, is in no Set, its promise resolved.
C18_NoEmptyListenerSet ==
  /\ \A event \in Events :
       /\ has(emitter, event) => emitter.sets[emitter.events[event]] # <<>>
       /\ has(emitter, event) <=> registered[event] # {}
       /\ Listening(event) = registered[event]
  /\ \A k \in OnceIdx :
       /\ emitter.onces[k].calls <= 1
       /\ emitter.onces[k].calls = 1 <=> emitter.onces[k].resolved
       /\ emitter.onces[k].calls = 1 => ~InSomeSet(OnceListener(k))
       /\ emitter.onces[k].calls = 0 => OnceListener(k) \in registered[emitter.onces[k].event]

\* a listener of once was called by an emit that is still suspended, its event
\* left the map, and a later call gave the event a second Set
C18_Witness ==
  /\ \E k \in OnceIdx : emitter.onces[k].calls = 1
  /\ \E i \in 1..Len(emitter.emits) :
       /\ emitter.emits[i].st = "await"
       /\ emitter.emits[i].listeners # emitter.events[emitter.emits[i].event]
       /\ has(emitter, emitter.emits[i].event)
  /\ Len(emitter.sets) >= 2

====
